---- MODULE Spec2Model ----
(***************************************************************************)
(* Model of the CommandRunner of peon-mcp: one pseudo-terminal process     *)
(* per runner, the connect/execute state machine, the command queue, the   *)
(* output buffer and the two kinds of timers.                              *)
(*                                                                         *)
(* The repository holds two revisions of the runner.  Both are modelled;   *)
(* a runner is built as one or the other (field impl):                     *)
(*   "prompt"   : src/unnamed/part_003 (readiness decided in onData by     *)
(*                hasShellPrompt, optimistic connect on timeout)           *)
(*   "interval" : src/src/services/command-runner.ts (readiness decided    *)
(*                by the 500 ms checkConnection interval, timeout rejects) *)
(*                                                                         *)
(* Strings are sequences of one-character strings.  Every handler of the   *)
(* code is one action; the handlers run to completion (single-threaded     *)
(* event loop), so each action is the whole handler.                       *)
(***************************************************************************)
EXTENDS Naturals, Sequences, FiniteSets

VARIABLES
  runners,    \* the CommandRunner objects, by object identity
  descs,      \* the ManagedProcess objects, one per runner of the registry
  processes   \* ProcessManager.processes: id -> ManagedProcess object

regVars == << descs, processes >>

vars == << runners, descs, processes >>

----------------------------------------------------------------------------
(* Bounds of the model *)

MaxCalls == 3
MaxBuf == 3
MaxProcesses == 2   \* config.maxProcesses of the ProcessManager
RegMaxCalls == 1    \* executeProcessCommand calls delegated per session
RegMaxWrites == 1   \* writeToProcess calls delegated per session
MaxSessions == 2    \* sessions started over the life of a ProcessManager

(* Inputs *)

RunnerIds == {"r"}
Impls == {"prompt", "interval"}
ExitCodes == {0, 1}
Chunks == { <<"h">>, <<"\n">>, <<"$", " ">> }
Commands == { <<"l", "s">> }
Ids == {"a", "b", "c"}
RegCommands == { << >>, <<"s", "h">> }   \* the empty command is invalid
RegChunks == { <<"$", " ">> }
RegInputs == { <<"y">> }
IoIds == {"a"}                           \* the ids started where commands are sent
PairIds == {"a", "b"}                    \* the ids started where two sessions are in use
SweepIds == {"a", "b"}                   \* the ids started where sessions are swept

----------------------------------------------------------------------------
(* Strings *)

PromptChars == {"$", "#", "%", ">"}
Newlines == {"\n", "\r"}
Whitespace == {" ", "\n", "\r", "\t"}

\* String.prototype.includes
Includes(s, pat) ==
  \E i \in 1..(Len(s) + 1 - Len(pat)) :
     \A k \in 1..Len(pat) : s[i + k - 1] = pat[k]

\* String.prototype.trim
Trim(s) ==
  LET keep == {i \in 1..Len(s) : s[i] \notin Whitespace}
  IN IF keep = {} THEN << >>
     ELSE LET lo == CHOOSE i \in keep : \A j \in keep : i <= j
              hi == CHOOSE i \in keep : \A j \in keep : j <= i
          IN SubSeq(s, lo, hi)

\* /[\r\n][^]*[$#%>]\s*$/ of hasShellPrompt
PromptAtEnd(s) ==
  \E i \in 1..Len(s) : \E j \in (i + 1)..Len(s) :
     /\ s[i] \in Newlines
     /\ s[j] \in PromptChars
     /\ \A k \in (j + 1)..Len(s) : s[k] \in Whitespace

\* /[\n\r]+.*[$#%>]\s*$/ of checkCommandCompletion ("." matches no line
\* terminator)
PromptOnLastLine(s) ==
  \E i \in 1..Len(s) : \E j \in (i + 1)..Len(s) :
     /\ s[i] \in Newlines
     /\ \A k \in (i + 1)..(j - 1) : s[k] \notin Newlines
     /\ s[j] \in PromptChars
     /\ \A k \in (j + 1)..Len(s) : s[k] \in Whitespace

hasShellPrompt(output) ==
  \/ Includes(output, <<"$", " ">>)
  \/ Includes(output, <<"#", " ">>)
  \/ Includes(output, <<"%", " ">>)
  \/ Includes(output, <<">", " ">>)
  \/ PromptAtEnd(output)
  \/ Includes(output, <<"r", "e", "a", "d", "y">>)
  \/ Includes(output, <<"l", "o", "g", "i", "n">>)
  \/ Includes(output, <<"p", "a", "s", "s", "w", "o", "r", "d">>)
  \/ Includes(output, <<"s", "u", "c", "c", "e", "s", "s", "f", "u", "l", "l", "y">>)

\* the promptPatterns of checkCommandCompletion in command-runner.ts
hasPrompt(output) ==
  \/ \E p \in PromptChars :
        \/ Includes(output, <<"\n", p, " ">>)
        \/ Includes(output, <<"\r", "\n", p, " ">>)
  \/ PromptOnLastLine(output)

\* the readiness test of the checkConnection interval
hasReadyChar(output) == \E p \in PromptChars : Includes(output, <<p>>)

\* the error test of the checkConnection interval
hasStartError(err) ==
  \/ Includes(err, <<"E", "r", "r", "o", "r">>)
  \/ Includes(err, <<"f", "a", "i", "l", "e", "d">>)
  \/ Includes(err, <<"t", "i", "m", "e", "d", " ", "o", "u", "t">>)

\* the line terminators that "." of a regular expression does not match
LineTerminators == {"\n", "\r"}

\* the escape character U+001B, written as one element
Esc == "ESC"

CsiParams == {"0", "1", "2", "3", "4", "5", "6", "7", "8", "9", ";"}

\* String.prototype.replace(ansiRegex(), ""): the control sequences
\* ESC [ parameters final-character are removed
RECURSIVE StripAnsi(_)
StripAnsi(s) ==
  IF s = << >> THEN << >>
  ELSE IF Head(s) = Esc /\ Len(s) >= 2 /\ s[2] = "["
       THEN LET finals == {j \in 3..Len(s) : s[j] \notin CsiParams}
            IN IF finals = {} THEN s
               ELSE LET j == CHOOSE k \in finals : \A l \in finals : k <= l
                    IN StripAnsi(SubSeq(s, j + 1, Len(s)))
       ELSE <<Head(s)>> \o StripAnsi(Tail(s))

\* String.prototype.indexOf(pat, from) with positions counted from 1;
\* 0 when there is no occurrence
IndexOf(s, pat, from) ==
  LET hits == {i \in from..(Len(s) + 1 - Len(pat)) :
                 \A k \in 1..Len(pat) : s[i + k - 1] = pat[k]}
  IN IF hits = {} THEN 0
     ELSE CHOOSE i \in hits : \A j \in hits : i <= j

\* removePromptFromEnd: output.replace(/[\r\n].*[$#%>]\s*$/, "")
removePromptFromEnd(output) ==
  LET starts == {i \in 1..Len(output) :
                   /\ output[i] \in Newlines
                   /\ \E j \in (i + 1)..Len(output) :
                         /\ \A k \in (i + 1)..(j - 1) :
                               output[k] \notin LineTerminators
                         /\ output[j] \in PromptChars
                         /\ \A k \in (j + 1)..Len(output) :
                               output[k] \in Whitespace}
  IN IF starts = {} THEN output
     ELSE LET i == CHOOSE k \in starts : \A l \in starts : k <= l
          IN SubSeq(output, 1, i - 1)

\* output.replace(/^.*\n/, "") of command-runner.ts
removeFirstLine(output) ==
  LET terms == {i \in 1..Len(output) : output[i] \in LineTerminators}
  IN IF terms = {} THEN output
     ELSE LET i == CHOOSE k \in terms : \A l \in terms : k <= l
          IN IF output[i] = "\n"
             THEN SubSeq(output, i + 1, Len(output))
             ELSE output

\* what executeCommand does to the value of the sink before it returns it
scrub(impl, command, result) ==
  LET output == StripAnsi(result)
  IN IF impl = "prompt"
     THEN LET commandEchoIndex    == IndexOf(output, command, 1)
              newlineAfterCommand ==
                IF commandEchoIndex > 0
                THEN IndexOf(output, <<"\n">>, commandEchoIndex)
                ELSE 0
              rest == IF newlineAfterCommand > 0
                      THEN SubSeq(output, newlineAfterCommand + 1, Len(output))
                      ELSE output
          IN Trim(removePromptFromEnd(rest))
     ELSE Trim(removeFirstLine(output))

----------------------------------------------------------------------------
(* One runner *)

Settled == {"resolved", "rejected"}

\* new CommandRunner(config), before start()
NewRunner(impl) ==
  [ impl           |-> impl,
    process        |-> "null",      \* this.process: "null" or "pty"
    isConnected    |-> FALSE,
    commandQueue   |-> << >>,       \* indexes into calls
    outputBuffer   |-> << >>,
    errorBuffer    |-> << >>,
    currentCommand |-> 0,           \* 0 is null, else an index into calls
    \* the pseudo-terminal and what was written to it
    pty            |-> "unspawned", \* "unspawned", "alive", "killed", "exited"
    exitCode       |-> 0,
    kills          |-> 0,           \* calls of this.process.kill()
    channel        |-> << >>,
    dispatched     |-> << >>,       \* the calls written to the channel, in order
    \* timers
    connTimer      |-> "unarmed",   \* "unarmed", "armed", "fired", "cleared"
    checkInterval  |-> FALSE,       \* the checkConnection interval is running
    cmdTimers      |-> << >>,       \* armed command timers, oldest first
    \* the promise of start()
    startState     |-> "notcalled", \* "notcalled", "pending", "resolved", "rejected"
    startError     |-> << >>,
    \* the promise of runSingleCommand()
    single         |-> "notcalled", \* "notcalled", "pending", "resolved", "rejected"
    singleError    |-> "none",
    \* the executeCommand calls made so far, and the order they settled in
    calls          |-> << >>,
    settled        |-> << >>,
    lastValue      |-> << >>,       \* the value last passed to a resolve sink
    \* output chunks received since the last dispatch, and whether the
    \* prompt heuristic matched the buffer since then
    received       |-> << >>,
    matched        |-> FALSE ]

\* resolve() of the start() promise; a settled promise ignores it
resolveStart(s) ==
  IF s.startState = "pending" THEN [s EXCEPT !.startState = "resolved"] ELSE s

\* reject(err) of the start() promise
rejectStart(s, err) ==
  IF s.startState = "pending"
  THEN [s EXCEPT !.startState = "rejected", !.startError = err]
  ELSE s

\* resolve(value) of the sink of call c
resolveCall(s, c, value, via) ==
  IF s.calls[c].state \in Settled
  THEN [s EXCEPT !.calls[c].sinks = @ + 1]
  ELSE [s EXCEPT !.calls[c].state = "resolved",
                 !.calls[c].sinks = @ + 1,
                 !.calls[c].via = via,
                 !.settled = Append(@, c),
                 !.lastValue = value]

\* reject(err) of the sink of call c
rejectCall(s, c, err, code, via) ==
  IF s.calls[c].state \in Settled
  THEN [s EXCEPT !.calls[c].sinks = @ + 1]
  ELSE [s EXCEPT !.calls[c].state = "rejected",
                 !.calls[c].sinks = @ + 1,
                 !.calls[c].via = via,
                 !.calls[c].err = err,
                 !.calls[c].code = code,
                 !.settled = Append(@, c)]

\* IPty always has write()
PtyHasWrite == TRUE

RECURSIVE processNextCommand(_)
processNextCommand(s) ==
  IF Len(s.commandQueue) = 0 \/ s.currentCommand # 0 \/ s.process = "null"
  THEN s
  ELSE LET c  == Head(s.commandQueue)
           s1 == [s EXCEPT !.currentCommand = c,
                           !.commandQueue = Tail(@),
                           !.outputBuffer = << >>,
                           !.errorBuffer = << >>,
                           !.calls[c].state = "inflight",
                           !.dispatched = Append(@, c),
                           !.received = << >>,
                           !.matched = FALSE]
       IN IF PtyHasWrite
          THEN [s1 EXCEPT !.channel = Append(@, s1.calls[c].command \o <<"\n">>),
                          !.cmdTimers = Append(@, c)]
          ELSE processNextCommand(
                 [rejectCall(s1, c, "StdinUnavailable", 0, "dispatch")
                    EXCEPT !.currentCommand = 0])

\* queueCommand with unshift in place of push
queueCommand_unshift(s, c) ==
  LET s1 == [s EXCEPT !.commandQueue = <<c>> \o @]
  IN IF s1.currentCommand = 0 THEN processNextCommand(s1) ELSE s1

queueCommand(s, c) ==
  LET s1 == [s EXCEPT !.commandQueue = Append(@, c)]
  IN IF s1.currentCommand = 0 THEN processNextCommand(s1) ELSE s1

checkCommandCompletion(s) ==
  IF s.currentCommand = 0 THEN s
  ELSE IF s.impl = "prompt"
       THEN IF hasShellPrompt(s.outputBuffer)
            THEN processNextCommand(
                   [resolveCall(s, s.currentCommand, s.outputBuffer, "prompt")
                      EXCEPT !.currentCommand = 0])
            ELSE s
       ELSE IF hasPrompt(s.outputBuffer)
            THEN processNextCommand(
                   [resolveCall(s, s.currentCommand, Trim(s.outputBuffer), "prompt")
                      EXCEPT !.currentCommand = 0])
            ELSE s

\* onData that connects without emptying the buffer
onData_keepsBuffer(s, chunk) ==
  LET buf == s.outputBuffer \o chunk
      s1  == [s EXCEPT !.outputBuffer = buf,
                       !.received = @ \o chunk,
                       !.matched = @ \/ (IF s.impl = "prompt"
                                         THEN hasShellPrompt(buf)
                                         ELSE hasPrompt(buf))]
      s2  == IF s.impl = "prompt" /\ ~s1.isConnected /\ hasShellPrompt(buf)
             THEN resolveStart([s1 EXCEPT !.isConnected = TRUE])
             ELSE s1
  IN checkCommandCompletion(s2)

\* this.process.onData
onData(s, chunk) ==
  LET buf == s.outputBuffer \o chunk
      s1  == [s EXCEPT !.outputBuffer = buf,
                       !.received = @ \o chunk,
                       !.matched = @ \/ (IF s.impl = "prompt"
                                         THEN hasShellPrompt(buf)
                                         ELSE hasPrompt(buf))]
      s2  == IF s.impl = "prompt" /\ ~s1.isConnected /\ hasShellPrompt(buf)
             THEN resolveStart([s1 EXCEPT !.isConnected = TRUE,
                                          !.outputBuffer = << >>])
             ELSE s1
  IN checkCommandCompletion(s2)

\* onExit whose first test forgets "!this.isConnected"
onExit_codeOnly(s, code) ==
  LET s1 == [s EXCEPT !.pty = "exited", !.exitCode = code]
      s2 == IF code # 0
            THEN rejectStart(s1, <<"exit", code>>)
            ELSE IF s1.currentCommand # 0
                 THEN processNextCommand(
                        [rejectCall(s1, s1.currentCommand,
                                    "CommandExecutionFailed", code, "exit")
                           EXCEPT !.currentCommand = 0])
                 ELSE s1
  IN [s2 EXCEPT !.isConnected = FALSE, !.process = "null"]

\* onExit that rejects start() with the timeout error, dropping the exit code
onExit_noCode(s, code) ==
  LET s1 == [s EXCEPT !.pty = "exited", !.exitCode = code]
      s2 == IF code # 0 /\ ~s1.isConnected
            THEN rejectStart(s1, <<"timeout">>)
            ELSE IF s1.currentCommand # 0
                 THEN processNextCommand(
                        [rejectCall(s1, s1.currentCommand,
                                    "CommandExecutionFailed", code, "exit")
                           EXCEPT !.currentCommand = 0])
                 ELSE s1
  IN [s2 EXCEPT !.isConnected = FALSE, !.process = "null"]

\* onExit that keeps its reference to the process
onExit_keepsProcess(s, code) ==
  LET s1 == [s EXCEPT !.pty = "exited", !.exitCode = code]
      s2 == IF code # 0 /\ ~s1.isConnected
            THEN rejectStart(s1, <<"exit", code>>)
            ELSE IF s1.currentCommand # 0
                 THEN processNextCommand(
                        [rejectCall(s1, s1.currentCommand,
                                    "CommandExecutionFailed", code, "exit")
                           EXCEPT !.currentCommand = 0])
                 ELSE s1
  IN [s2 EXCEPT !.isConnected = FALSE]

\* this.process.onExit
onExit(s, code) ==
  LET s1 == [s EXCEPT !.pty = "exited", !.exitCode = code]
      s2 == IF code # 0 /\ ~s1.isConnected
            THEN rejectStart(s1, <<"exit", code>>)
            ELSE IF s1.currentCommand # 0
                 THEN processNextCommand(
                        [rejectCall(s1, s1.currentCommand,
                                    "CommandExecutionFailed", code, "exit")
                           EXCEPT !.currentCommand = 0])
                 ELSE s1
  IN [s2 EXCEPT !.isConnected = FALSE, !.process = "null"]

\* connectionTimeout without its rejecting branch
connectionTimeout_noReject(s) ==
  LET s1 == [s EXCEPT !.connTimer = "fired"]
  IN IF s.impl = "prompt" /\ ~s1.isConnected /\ s1.process # "null"
     THEN resolveStart([s1 EXCEPT !.isConnected = TRUE,
                                  !.outputBuffer = << >>])
     ELSE s1

\* the setTimeout(..., connectionTimeout) callback of start()
connectionTimeout(s) ==
  LET s1 == [s EXCEPT !.connTimer = "fired"]
  IN IF s.impl = "prompt"
     THEN IF ~s1.isConnected /\ s1.process # "null"
          THEN resolveStart([s1 EXCEPT !.isConnected = TRUE,
                                       !.outputBuffer = << >>])
          ELSE IF ~s1.isConnected
               THEN rejectStart(s1, <<"timeout">>)
               ELSE s1
     ELSE IF ~s1.isConnected
          THEN rejectStart(s1, <<"timeout">>)
          ELSE s1

\* clearTimeout(timeout)
clearTimeout(t) == IF t = "armed" THEN "cleared" ELSE t

\* the setInterval(..., 500) callback of start() in command-runner.ts
checkConnection(s) ==
  IF hasReadyChar(s.outputBuffer)
  THEN resolveStart([s EXCEPT !.checkInterval = FALSE,
                              !.connTimer = clearTimeout(@),
                              !.isConnected = TRUE,
                              !.outputBuffer = << >>])
  ELSE IF hasStartError(s.errorBuffer)
       THEN rejectStart([s EXCEPT !.checkInterval = FALSE,
                                  !.connTimer = clearTimeout(@)],
                        <<"failed">>)
       ELSE s

\* commandTimeout that forgets to call the sink
commandTimeout_dropsSink(s) ==
  LET s1 == [s EXCEPT !.cmdTimers = Tail(@)]
  IN IF s1.currentCommand # 0
     THEN processNextCommand([s1 EXCEPT !.currentCommand = 0])
     ELSE s1

\* commandTimeout that treats the timeout as a failure
commandTimeout_rejects(s) ==
  LET s1 == [s EXCEPT !.cmdTimers = Tail(@)]
  IN IF s1.currentCommand # 0
     THEN processNextCommand(
            [rejectCall(s1, s1.currentCommand, "CommandTimeout", 0, "timeout")
               EXCEPT !.currentCommand = 0])
     ELSE s1

\* the setTimeout(..., commandTimeout) callback of processNextCommand
commandTimeout(s) ==
  LET s1 == [s EXCEPT !.cmdTimers = Tail(@)]
  IN IF s1.currentCommand # 0
     THEN processNextCommand(
            [resolveCall(s1, s1.currentCommand, s1.outputBuffer, "timeout")
               EXCEPT !.currentCommand = 0])
     ELSE s1

\* start()
start(s) ==
  LET s0 == [s EXCEPT !.startState = "pending"]
  IN IF s0.isConnected /\ s0.process # "null"
     THEN resolveStart(s0)
     ELSE [s0 EXCEPT !.process = "pty",
                     !.pty = "alive",
                     !.outputBuffer = << >>,
                     !.errorBuffer = << >>,
                     !.connTimer = "armed",
                     !.checkInterval = (s.impl = "interval")]

\* stop() that forgets to drop its reference to the process
stop_keepsProcess(s) ==
  IF s.process # "null"
  THEN [s EXCEPT !.pty = IF @ = "alive" THEN "killed" ELSE @,
                 !.kills = @ + 1,
                 !.isConnected = FALSE]
  ELSE s

\* stop()
stop(s) ==
  IF s.process # "null"
  THEN [s EXCEPT !.pty = IF @ = "alive" THEN "killed" ELSE @,
                 !.kills = @ + 1,
                 !.process = "null",
                 !.isConnected = FALSE]
  ELSE s

\* state: "queued", "inflight", "resolved", "rejected"; via: the handler
\* that settled the call
NewCall(command, state, err, via) ==
  [command |-> command, state |-> state, err |-> err, code |-> 0, via |-> via,
   \* the number of times resolve or reject of the call was invoked
   sinks |-> IF state \in Settled THEN 1 ELSE 0]

\* executeCommand that tests isConnected only
executeCommand_onlyConnected(s, command) ==
  LET c == Len(s.calls) + 1
  IN IF ~s.isConnected
     THEN [s EXCEPT !.calls = Append(@, NewCall(command, "rejected", "NotRunning", "refused")),
                    !.settled = Append(@, c)]
     ELSE queueCommand([s EXCEPT !.calls = Append(@, NewCall(command, "queued", "none", "none"))],
                       c)

\* executeCommand(command), up to the result of the sink
executeCommand(s, command) ==
  LET c == Len(s.calls) + 1
  IN IF ~s.isConnected \/ s.process = "null"
     THEN [s EXCEPT !.calls = Append(@, NewCall(command, "rejected", "NotRunning", "refused")),
                    !.settled = Append(@, c)]
     ELSE queueCommand([s EXCEPT !.calls = Append(@, NewCall(command, "queued", "none", "none"))],
                       c)

\* write(input); the outcome tells whether it threw
write(s, input) ==
  IF s.process # "null" /\ s.isConnected
  THEN [runner |-> [s EXCEPT !.channel = Append(@, input)], threw |-> FALSE]
  ELSE [runner |-> s, threw |-> TRUE]

isRunning(s) == s.isConnected /\ s.process # "null"

\* getOutput()
getOutput(s) == s.outputBuffer

\* the value of "await this.start()": start() is a Promise<void>, each of
\* its resolve() calls passes no argument
startValue(s) == [type |-> "undefined"]

\* typeof
typeOf(v) == v.type

\* runSingleCommand(), up to its await of start()
runSingleCommand(s) == start([s EXCEPT !.single = "pending"])

\* the catch block of runSingleCommand, then the rethrow that runCommand
\* passes on to its caller
runSingleCatch(s, err) ==
  LET s1 == IF isRunning(s) THEN stop(s) ELSE s
  IN [s1 EXCEPT !.single = "rejected", !.singleError = err]

\* the rest of runSingleCommand, run when a handler has taken the runner
\* from s to t and settled start() on the way
afterStart(s, t) ==
  IF t.single # "pending" \/ s.startState # "pending"
  THEN t
  ELSE IF t.startState = "resolved"
       THEN LET output == startValue(t)
                t1     == stop(t)
            IN IF typeOf(output) # "string"
               THEN runSingleCatch(t1, "NotAString")
               ELSE [t1 EXCEPT !.single = "resolved"]
       ELSE IF t.startState = "rejected"
            THEN runSingleCatch(t, "StartFailed")
            ELSE t

----------------------------------------------------------------------------
(* The actions: one per operation, handler or timer *)

\* one runner constructed on its own, no ProcessManager in use
Init ==
  /\ \E impl \in Impls : runners = [r \in RunnerIds |-> NewRunner(impl)]
  /\ descs = << >>
  /\ processes = << >>

\* start() is called once per runner: by ProcessManager.startProcess and by
\* runSingleCommand, each on a runner it has just constructed.
Start(r) ==
  /\ runners[r].startState = "notcalled"
  /\ runners' = [runners EXCEPT ![r] = start(@)]
  /\ UNCHANGED regVars

Stop(r) ==
  /\ runners' = [runners EXCEPT ![r] = stop(@)]
  /\ UNCHANGED regVars

ExecuteCommand(r) ==
  /\ Len(runners[r].calls) < MaxCalls
  /\ \E command \in Commands :
        runners' = [runners EXCEPT ![r] = executeCommand(@, command)]
  /\ UNCHANGED regVars

\* An output chunk.  The pseudo-terminal reports its exit after its output
\* has been flushed, so chunks arrive until the exit notification, also
\* after stop() has killed the process.
OnData(r) ==
  /\ runners[r].pty \in {"alive", "killed"}
  /\ \E chunk \in Chunks :
        /\ Len(runners[r].outputBuffer) + Len(chunk) <= MaxBuf
        /\ Len(runners[r].received) + Len(chunk) <= MaxBuf
        /\ runners' = [runners EXCEPT ![r] = onData(@, chunk)]
  /\ UNCHANGED regVars

\* The exit notification, once per spawned process, with any exit code
\* (a killed process reports a code as well).
OnExit(r) ==
  /\ runners[r].pty \in {"alive", "killed"}
  /\ \E code \in ExitCodes :
        runners' = [runners EXCEPT ![r] = onExit(@, code)]
  /\ UNCHANGED regVars

ConnectionTimeout(r) ==
  /\ runners[r].connTimer = "armed"
  /\ runners' = [runners EXCEPT ![r] = connectionTimeout(@)]
  /\ UNCHANGED regVars

CheckConnection(r) ==
  /\ runners[r].checkInterval
  /\ runners' = [runners EXCEPT ![r] = checkConnection(@)]
  /\ UNCHANGED regVars

\* Command timers are never cleared and all have the same delay, so they
\* fire in the order in which they were armed.
CommandTimeout(r) ==
  /\ runners[r].cmdTimers # << >>
  /\ runners' = [runners EXCEPT ![r] = commandTimeout(@)]
  /\ UNCHANGED regVars

Next ==
  \E r \in RunnerIds :
     \/ Start(r)
     \/ Stop(r)
     \/ ExecuteCommand(r)
     \/ OnData(r)
     \/ OnExit(r)
     \/ ConnectionTimeout(r)
     \/ CheckConnection(r)
     \/ CommandTimeout(r)

Spec == Init /\ [][Next]_vars

----------------------------------------------------------------------------
(* The session of one shell: the prompt on spawn, then "echo hi" *)

PromptText ==
  <<"u", "s", "e", "r", "@", "h", "o", "s", "t", ":", "~", "$", " ">>

EchoCommand == <<"e", "c", "h", "o", " ", "h", "i">>

\* what the shell writes for "echo hi": the echo of the line, the output,
\* the next prompt
EchoOutput ==
  EchoCommand \o <<"\r", "\n", "h", "i", "\r", "\n">> \o PromptText

\* the next chunk of text: any non-empty piece of what is left of it
NextChunks(text, pos) ==
  {SubSeq(text, pos + 1, pos + k) : k \in 1..(Len(text) - pos)}

\* the shell writes its prompt after the spawn, in any number of chunks
ShellPrompt(r) ==
  /\ runners[r].pty = "alive"
  /\ runners[r].calls = << >>
  /\ \E chunk \in NextChunks(PromptText, Len(runners[r].received)) :
        runners' = [runners EXCEPT ![r] = onData(@, chunk)]
  /\ UNCHANGED regVars

\* executeCommand("echo hi"), once start() has resolved and the prompt is out
ExecuteEcho(r) ==
  /\ runners[r].startState = "resolved"
  /\ runners[r].calls = << >>
  /\ runners[r].received = PromptText
  /\ runners' = [runners EXCEPT ![r] = executeCommand(@, EchoCommand)]
  /\ UNCHANGED regVars

\* the shell answers the command line it was sent, in any number of chunks
ShellOutput(r) ==
  /\ runners[r].pty = "alive"
  /\ Len(runners[r].dispatched) = 1
  /\ \E chunk \in NextChunks(EchoOutput, Len(runners[r].received)) :
        runners' = [runners EXCEPT ![r] = onData(@, chunk)]
  /\ UNCHANGED regVars

EchoNext ==
  \E r \in RunnerIds :
     \/ Start(r)
     \/ ShellPrompt(r)
     \/ CheckConnection(r)
     \/ ExecuteEcho(r)
     \/ ShellOutput(r)
     \/ CommandTimeout(r)

EchoSpec == Init /\ [][EchoNext]_vars

----------------------------------------------------------------------------
(* runCommand: one ad hoc runner, started by runSingleCommand and discarded *)

\* runSingleCommand exists in src/src/services/command-runner.ts only
RunInit ==
  /\ runners = [r \in RunnerIds |-> NewRunner("interval")]
  /\ descs = << >>
  /\ processes = << >>

\* a handler of the ad hoc runner has run and left the runner as t
AdHocStep(r, t) ==
  /\ runners' = [runners EXCEPT ![r] = afterStart(runners[r], t)]
  /\ UNCHANGED regVars

\* runCommand(command): new CommandRunner(...), then runSingleCommand()
RunCommand(r) ==
  /\ runners[r].single = "notcalled"
  /\ AdHocStep(r, runSingleCommand(runners[r]))

AdHocOnData(r) ==
  /\ runners[r].pty \in {"alive", "killed"}
  /\ \E chunk \in Chunks :
        /\ Len(runners[r].received) + Len(chunk) <= MaxBuf
        /\ AdHocStep(r, onData(runners[r], chunk))

AdHocOnExit(r) ==
  /\ runners[r].pty \in {"alive", "killed"}
  /\ \E code \in ExitCodes : AdHocStep(r, onExit(runners[r], code))

AdHocConnectionTimeout(r) ==
  /\ runners[r].connTimer = "armed"
  /\ AdHocStep(r, connectionTimeout(runners[r]))

AdHocCheckConnection(r) ==
  /\ runners[r].checkInterval
  /\ AdHocStep(r, checkConnection(runners[r]))

RunNext ==
  \E r \in RunnerIds :
     \/ RunCommand(r)
     \/ AdHocOnData(r)
     \/ AdHocOnExit(r)
     \/ AdHocConnectionTimeout(r)
     \/ AdHocCheckConnection(r)

RunSpec == RunInit /\ [][RunNext]_vars

----------------------------------------------------------------------------
(* The ProcessManager.  Its state is the map processes and the objects the
   map refers to; an operation takes that state and yields the new state
   and the outcome of the call. *)

Registry == [runners |-> runners, descs |-> descs, processes |-> processes]

Outcome(g, outcome) == [g |-> g, outcome |-> outcome]

\* the ManagedProcess object built by startProcess; startCall tells whether
\* the startProcess call is still awaiting runner.start(), expired whether
\* the time since startTime exceeds the retention window of five minutes
NewManagedProcess(id) ==
  [id |-> id, status |-> "running", startCall |-> "awaiting", expired |-> FALSE]

\* this.processes.set(id, managedProcess)
MapSet(map, id, obj) ==
  [k \in DOMAIN map \cup {id} |-> IF k = id THEN obj ELSE map[k]]

\* the errors startProcess raises
StartErrors == {"CapacityExceeded", "DuplicateId", "ConfigurationError"}

\* startProcess that tests the capacity with ">" in place of ">="
startProcess_offByOne(g, id, command, impl) ==
  IF Cardinality(DOMAIN g.processes) > MaxProcesses
  THEN Outcome(g, "CapacityExceeded")
  ELSE IF id \in DOMAIN g.processes
       THEN Outcome(g, "DuplicateId")
       ELSE IF command = << >>
            THEN Outcome(g, "ConfigurationError")
            ELSE LET n == Len(g.runners) + 1
                 IN Outcome([runners   |-> Append(g.runners, start(NewRunner(impl))),
                             descs     |-> Append(g.descs, NewManagedProcess(id)),
                             processes |-> MapSet(g.processes, id, n)],
                            "registered")

\* startProcess that registers the session before it looks for the id
startProcess_setsFirst(g, id, command, impl) ==
  IF Cardinality(DOMAIN g.processes) >= MaxProcesses
  THEN Outcome(g, "CapacityExceeded")
  ELSE IF command = << >>
       THEN Outcome(g, "ConfigurationError")
       ELSE LET n  == Len(g.runners) + 1
                g1 == [runners   |-> Append(g.runners, start(NewRunner(impl))),
                       descs     |-> Append(g.descs, NewManagedProcess(id)),
                       processes |-> MapSet(g.processes, id, n)]
            IN IF id \in DOMAIN g.processes
               THEN Outcome(g1, "DuplicateId")
               ELSE Outcome(g1, "registered")

\* startProcess(id, command), up to its await of runner.start()
startProcess(g, id, command, impl) ==
  IF Cardinality(DOMAIN g.processes) >= MaxProcesses
  THEN Outcome(g, "CapacityExceeded")
  ELSE IF id \in DOMAIN g.processes
       THEN Outcome(g, "DuplicateId")
       ELSE IF command = << >>
            THEN Outcome(g, "ConfigurationError")
            ELSE LET n == Len(g.runners) + 1
                 IN Outcome([runners   |-> Append(g.runners, start(NewRunner(impl))),
                             descs     |-> Append(g.descs, NewManagedProcess(id)),
                             processes |-> MapSet(g.processes, id, n)],
                            "registered")

\* afterRunnerStep whose catch block lets the error of start() through
afterRunnerStep_rethrows(d, s, t, exited, code) ==
  LET d1 == IF exited
            THEN [d EXCEPT !.status = IF code # 0 THEN "error" ELSE "stopped"]
            ELSE d
  IN IF s.startState = "pending" /\ t.startState = "rejected"
     THEN [d1 EXCEPT !.startCall = "raised"]
     ELSE IF s.startState = "pending" /\ t.startState = "resolved"
          THEN [d1 EXCEPT !.startCall = "returned"]
          ELSE d1

\* afterRunnerStep whose onExit listener marks every exit as Stopped
afterRunnerStep_ignoresCode(d, s, t, exited, code) ==
  LET d1 == IF exited THEN [d EXCEPT !.status = "stopped"] ELSE d
  IN IF s.startState = "pending" /\ t.startState = "rejected"
     THEN [d1 EXCEPT !.startCall = "returned"]
     ELSE IF s.startState = "pending" /\ t.startState = "resolved"
          THEN [d1 EXCEPT !.startCall = "returned"]
          ELSE d1

\* afterRunnerStep that marks the session Running when start() resolves
afterRunnerStep_revives(d, s, t, exited, code) ==
  LET d1 == IF exited
            THEN [d EXCEPT !.status = IF code # 0 THEN "error" ELSE "stopped"]
            ELSE d
  IN IF s.startState = "pending" /\ t.startState = "rejected"
     THEN [d1 EXCEPT !.status = "error", !.startCall = "returned"]
     ELSE IF s.startState = "pending" /\ t.startState = "resolved"
          THEN [d1 EXCEPT !.status = "running", !.startCall = "returned"]
          ELSE d1

\* the rest of startProcess and the onExit listener it registered, run when a
\* handler of runner n has taken the runner from s to t: the listener on an
\* exit, then the continuation of "await runner.start()" if start() settled
afterRunnerStep(d, s, t, exited, code) ==
  LET d1 == IF exited
            THEN [d EXCEPT !.status = IF code # 0 THEN "error" ELSE "stopped"]
            ELSE d
  IN IF s.startState = "pending" /\ t.startState = "rejected"
     THEN [d1 EXCEPT !.status = "error", !.startCall = "returned"]
     ELSE IF s.startState = "pending" /\ t.startState = "resolved"
          THEN [d1 EXCEPT !.startCall = "returned"]
          ELSE d1

\* stopProcess that stops every Running session
stopProcess_stopsAll(g, id) ==
  IF id \notin DOMAIN g.processes
  THEN Outcome(g, "false")
  ELSE Outcome([g EXCEPT
                  !.runners = [n \in DOMAIN g.runners |->
                                 IF g.descs[n].status = "running"
                                 THEN stop(g.runners[n]) ELSE g.runners[n]],
                  !.descs = [n \in DOMAIN g.descs |->
                               IF g.descs[n].status = "running"
                               THEN [g.descs[n] EXCEPT !.status = "stopped"]
                               ELSE g.descs[n]]],
               "true")

\* stopProcess(id)
stopProcess(g, id) ==
  IF id \notin DOMAIN g.processes
  THEN Outcome(g, "false")
  ELSE LET n == g.processes[id]
       IN IF g.descs[n].status = "running"
          THEN Outcome([g EXCEPT !.runners[n] = stop(@),
                                 !.descs[n].status = "stopped"],
                       "true")
          ELSE Outcome(g, "true")

\* executeProcessCommand without the test of the status
executeProcessCommand_anyStatus(g, id, command) ==
  IF id \notin DOMAIN g.processes
  THEN Outcome(g, "NotFound")
  ELSE LET n == g.processes[id]
       IN Outcome([g EXCEPT !.runners[n] = executeCommand(@, command)],
                  "delegated")

\* executeProcessCommand(id, command)
executeProcessCommand(g, id, command) ==
  IF id \notin DOMAIN g.processes
  THEN Outcome(g, "NotFound")
  ELSE LET n == g.processes[id]
       IN IF g.descs[n].status # "running"
          THEN Outcome(g, "NotRunning")
          ELSE Outcome([g EXCEPT !.runners[n] = executeCommand(@, command)],
                       "delegated")

\* writeToProcess(id, input)
writeToProcess(g, id, input) ==
  IF id \notin DOMAIN g.processes
  THEN Outcome(g, "NotFound")
  ELSE LET n == g.processes[id]
       IN IF g.descs[n].status # "running"
          THEN Outcome(g, "NotRunning")
          ELSE LET w == write(g.runners[n], input)
               IN Outcome([g EXCEPT !.runners[n] = w.runner],
                          IF w.threw THEN "delegatedThrew" ELSE "delegated")

\* getProcess(id): the ManagedProcess object, 0 for undefined
getProcess(g, id) ==
  IF id \in DOMAIN g.processes THEN g.processes[id] ELSE 0

\* getAllProcesses()
getAllProcesses(g) == {g.processes[id] : id \in DOMAIN g.processes}

\* the test of the sweep on one descriptor
Stale(d) == d.status # "running" /\ d.expired

\* a sweep that tests the age only
sweep_ignoresStatus(g) ==
  LET keep == {id \in DOMAIN g.processes : ~g.descs[g.processes[id]].expired}
  IN Outcome([g EXCEPT !.processes = IF keep = {} THEN << >>
                                     ELSE [id \in keep |-> g.processes[id]]],
             "done")

\* a sweep that removes the stopped sessions only
sweep_onlyStopped(g) ==
  LET keep == {id \in DOMAIN g.processes :
                 ~(/\ g.descs[g.processes[id]].status = "stopped"
                   /\ g.descs[g.processes[id]].expired)}
  IN Outcome([g EXCEPT !.processes = IF keep = {} THEN << >>
                                     ELSE [id \in keep |-> g.processes[id]]],
             "done")

\* one pass of the setInterval callback of startMonitoring
sweep(g) ==
  LET keep == {id \in DOMAIN g.processes : ~Stale(g.descs[g.processes[id]])}
  IN Outcome([g EXCEPT !.processes = IF keep = {} THEN << >>
                                     ELSE [id \in keep |-> g.processes[id]]],
             "done")

\* a shutdown that clears the map without stopping anything
shutdown_clearsOnly(g) ==
  Outcome([g EXCEPT !.processes = << >>], "done")

\* shutdown()
shutdown(g) ==
  LET running == {g.processes[id] : id \in
                    {k \in DOMAIN g.processes :
                        g.descs[g.processes[k]].status = "running"}}
  IN Outcome([runners   |-> [n \in DOMAIN g.runners |->
                               IF n \in running THEN stop(g.runners[n])
                               ELSE g.runners[n]],
              descs     |-> g.descs,
              processes |-> << >>],
             "done")

----------------------------------------------------------------------------
(* The actions of a ProcessManager and the sessions it started *)

RegInit ==
  /\ runners = << >>
  /\ descs = << >>
  /\ processes = << >>

\* the registry after an operation
Returns(o) ==
  /\ runners' = o.g.runners
  /\ descs' = o.g.descs
  /\ processes' = o.g.processes

\* one build links one revision of the runner
StartProcess(id) ==
  \E command \in RegCommands :
     \E impl \in (IF runners = << >> THEN Impls ELSE {runners[1].impl}) :
        Returns(startProcess(Registry, id, command, impl))

StopProcess(id) ==
  Returns(stopProcess(Registry, id))

ExecuteProcessCommand(id) ==
  /\ id \in DOMAIN processes => Len(runners[processes[id]].calls) < RegMaxCalls
  /\ \E command \in Commands :
        Returns(executeProcessCommand(Registry, id, command))

WriteToProcess(id) ==
  /\ id \in DOMAIN processes
        => Len(runners[processes[id]].channel)
              < Len(runners[processes[id]].calls) + RegMaxWrites
  /\ \E input \in RegInputs :
        Returns(writeToProcess(Registry, id, input))

\* a handler of runner n has run and left the runner as t
RunnerStep(n, t, exited, code) ==
  /\ runners' = [runners EXCEPT ![n] = t]
  /\ descs' = [descs EXCEPT ![n] = afterRunnerStep(@, runners[n], t, exited, code)]
  /\ UNCHANGED processes

ProcOnData(n) ==
  /\ runners[n].pty \in {"alive", "killed"}
  /\ \E chunk \in RegChunks :
        /\ Len(runners[n].outputBuffer) + Len(chunk) <= MaxBuf
        /\ Len(runners[n].received) + Len(chunk) <= MaxBuf
        /\ RunnerStep(n, onData(runners[n], chunk), FALSE, 0)

ProcOnExit(n) ==
  /\ runners[n].pty \in {"alive", "killed"}
  /\ \E code \in ExitCodes :
        RunnerStep(n, onExit(runners[n], code), TRUE, code)

ProcConnectionTimeout(n) ==
  /\ runners[n].connTimer = "armed"
  /\ RunnerStep(n, connectionTimeout(runners[n]), FALSE, 0)

ProcCheckConnection(n) ==
  /\ runners[n].checkInterval
  /\ RunnerStep(n, checkConnection(runners[n]), FALSE, 0)

ProcCommandTimeout(n) ==
  /\ runners[n].cmdTimers # << >>
  /\ RunnerStep(n, commandTimeout(runners[n]), FALSE, 0)

\* The life cycle of the sessions: sessions are started and stopped, their
\* processes write output and exit, their connection timers fire.
RegNext ==
  \/ \E id \in Ids :
        \/ StartProcess(id)
        \/ StopProcess(id)
  \/ \E n \in DOMAIN runners :
        \/ ProcOnData(n)
        \/ ProcOnExit(n)
        \/ ProcConnectionTimeout(n)
        \/ ProcCheckConnection(n)

RegSpec == RegInit /\ [][RegNext]_vars

\* One session in use: commands and raw input are sent to it, and to an id
\* that was never started.
RegIoNext ==
  \/ \E id \in IoIds : StartProcess(id)
  \/ \E id \in Ids :
        \/ StopProcess(id)
        \/ ExecuteProcessCommand(id)
        \/ WriteToProcess(id)
  \/ \E n \in DOMAIN runners :
        \/ ProcOnData(n)
        \/ ProcOnExit(n)
        \/ ProcConnectionTimeout(n)
        \/ ProcCheckConnection(n)
        \/ ProcCommandTimeout(n)

RegIoSpec == RegInit /\ [][RegIoNext]_vars

\* Two sessions in use side by side.
RegPairNext ==
  \/ \E id \in PairIds :
        \/ StartProcess(id)
        \/ StopProcess(id)
  \/ \E id \in Ids : ExecuteProcessCommand(id)
  \/ \E n \in DOMAIN runners :
        \/ ProcOnData(n)
        \/ ProcOnExit(n)
        \/ ProcCheckConnection(n)
        \/ ProcCommandTimeout(n)

RegPairSpec == RegInit /\ [][RegPairNext]_vars

\* Time passes: the age of session n exceeds the retention window.  The
\* sessions age in the order in which they were started.
RetentionElapses(n) ==
  /\ n \in DOMAIN descs
  /\ ~descs[n].expired
  /\ \A m \in 1..(n - 1) : descs[m].expired
  /\ descs' = [descs EXCEPT ![n].expired = TRUE]
  /\ UNCHANGED << runners, processes >>

Sweep == Returns(sweep(Registry))

Shutdown == Returns(shutdown(Registry))

\* Housekeeping: sessions are started, stopped and exit, grow old, are swept,
\* and the manager is shut down.
RegSweepNext ==
  \/ \E id \in SweepIds :
        \/ Len(runners) < MaxSessions /\ StartProcess(id)
        \/ StopProcess(id)
  \/ \E n \in DOMAIN runners :
        \/ ProcOnExit(n)
        \/ RetentionElapses(n)
  \/ Sweep
  \/ Shutdown

RegSweepSpec == RegInit /\ [][RegSweepNext]_vars

\* The sweep interval keeps firing (setInterval is never cleared) and time
\* keeps passing.
RegSweepFairSpec ==
  /\ RegSweepSpec
  /\ WF_vars(Sweep)
  /\ \A n \in 1..MaxSessions : WF_vars(RetentionElapses(n))

----------------------------------------------------------------------------
(* Reading the runner's history *)

Runner(r) == runners[r]

CallIds(s) == 1..Len(s.calls)

\* the calls that executeCommand enqueued (it refused the others)
Accepted(s) == {c \in CallIds(s) : s.calls[c].via # "refused"}

\* dispatched to the channel and not yet settled
InFlight(s) == {c \in CallIds(s) : s.calls[c].state = "inflight"}

Pending(s) == {c \in CallIds(s) : s.calls[c].state \notin Settled}

\* the step from s to t is the exit notification of the process
ExitStep(s, t) == s.pty \in {"alive", "killed"} /\ t.pty = "exited"

\* the step from s to t is the oldest command timer firing
CommandTimerStep(s, t) ==
  /\ s.cmdTimers # << >>
  /\ t.cmdTimers # s.cmdTimers
  /\ Len(t.cmdTimers) <= Len(s.cmdTimers)

\* the step from s to t is the connection timer firing
ConnectionTimerStep(s, t) == s.connTimer = "armed" /\ t.connTimer = "fired"

\* the number of times call c occurs in a sequence of calls
Occurrences(q, c) == Cardinality({k \in 1..Len(q) : q[k] = c})

\* the i-th call, in order of submission, that executeCommand enqueued
NthAccepted(s, i) ==
  CHOOSE c \in Accepted(s) : Cardinality({d \in Accepted(s) : d <= c}) = i

----------------------------------------------------------------------------
(* C1 *)

\* C1 (as stated): the executeCommand calls of a runner settle in the order
\* in which they were submitted, whatever the interleaving of chunks, timers,
\* exit and stop().
C1_AllCallsSettleInOrder ==
  \A r \in RunnerIds :
     \A i, j \in 1..Len(Runner(r).settled) :
        i < j => Runner(r).settled[i] < Runner(r).settled[j]

\* C1 (amended): the calls that executeCommand accepted (enqueued) settle in
\* the order in which they were submitted; a call refused with NotRunning
\* settles at once, possibly before earlier accepted calls.
C1_AcceptedCallsSettleInOrder ==
  \A r \in RunnerIds :
     \A i, j \in 1..Len(Runner(r).settled) :
        (/\ i < j
         /\ Runner(r).settled[i] \in Accepted(Runner(r))
         /\ Runner(r).settled[j] \in Accepted(Runner(r)))
        => Runner(r).settled[i] < Runner(r).settled[j]

\* three accepted calls have all settled, the last two after waiting in the
\* queue together
C1_Witness ==
  \E r \in RunnerIds :
     /\ Len(Runner(r).calls) = 3
     /\ Accepted(Runner(r)) = {1, 2, 3}
     /\ Runner(r).settled = <<1, 2, 3>>

----------------------------------------------------------------------------
(* C2 *)

\* C2: at most one command of a runner is in flight (dispatched and not yet
\* settled), and it is the one the runner holds as currentCommand.
C2_AtMostOneInFlight ==
  \A r \in RunnerIds :
     /\ Cardinality(InFlight(Runner(r))) <= 1
     /\ \A c \in InFlight(Runner(r)) : Runner(r).currentCommand = c

\* a second command was dispatched after the first one settled, while a
\* third waits in the queue
C2_Witness ==
  \E r \in RunnerIds :
     /\ Len(Runner(r).channel) = 2
     /\ Runner(r).calls[1].state \in Settled
     /\ InFlight(Runner(r)) = {2}
     /\ Runner(r).commandQueue = <<3>>

----------------------------------------------------------------------------
(* C3 *)

\* C3: every executeCommand call settles.  Once the process has exited and
\* no command timer is armed, no handler is left that could settle a call,
\* so at that point no call may still be queued or in flight.
C3_EveryCallSettles ==
  \A r \in RunnerIds :
     (Runner(r).pty = "exited" /\ Runner(r).cmdTimers = << >>)
     => Pending(Runner(r)) = {}

----------------------------------------------------------------------------
(* C4 *)

\* C4: when the timer armed for the in-flight command fires and no prompt
\* match occurred since the dispatch, the call is resolved (not rejected)
\* with the output received since its dispatch.
C4_TimeoutResolvesWithBuffer ==
  [][\A r \in RunnerIds :
        LET s == runners[r]
            t == runners'[r]
        IN (/\ CommandTimerStep(s, t)
            /\ s.currentCommand # 0
            /\ s.currentCommand = Head(s.cmdTimers)
            /\ ~s.matched)
           => /\ t.calls[s.currentCommand].state = "resolved"
              /\ t.calls[s.currentCommand].via = "timeout"
              /\ t.lastValue = s.received]_vars

\* the only call made was resolved by its timer with the two chunks received
\* since its dispatch
C4_Witness ==
  \E r \in RunnerIds :
     /\ Len(Runner(r).calls) = 1
     /\ Runner(r).calls[1].state = "resolved"
     /\ Runner(r).calls[1].via = "timeout"
     /\ Runner(r).received = <<"h", "\n">>
     /\ Runner(r).lastValue = <<"h", "\n">>

----------------------------------------------------------------------------
(* C5 *)

\* C5: when the process exits while the runner is connected and a command is
\* in flight, that command is rejected with CommandExecutionFailed carrying
\* the exit code, and the runner is disconnected afterwards.
C5_ExitRejectsInFlight ==
  [][\A r \in RunnerIds :
        LET s == runners[r]
            t == runners'[r]
        IN (ExitStep(s, t) /\ isRunning(s) /\ s.currentCommand # 0)
           => /\ t.calls[s.currentCommand].state = "rejected"
              /\ t.calls[s.currentCommand].err = "CommandExecutionFailed"
              /\ t.calls[s.currentCommand].code = t.exitCode
              /\ ~t.isConnected
              /\ ~isRunning(t)]_vars

\* a command was rejected by an exit with a non-zero code
C5_Witness ==
  \E r \in RunnerIds : \E c \in CallIds(Runner(r)) :
     /\ Runner(r).pty = "exited"
     /\ Runner(r).exitCode = 1
     /\ Runner(r).calls[c].state = "rejected"
     /\ Runner(r).calls[c].err = "CommandExecutionFailed"
     /\ Runner(r).calls[c].code = 1
     /\ ~isRunning(Runner(r))

----------------------------------------------------------------------------
(* C6 *)

\* C6: when the process exits while a command is in flight, the commands
\* waiting in the queue are not dispatched (nothing is written to the
\* channel, no timer is armed) and each is rejected with NotRunning.
C6_QueuedFailFast ==
  [][\A r \in RunnerIds :
        LET s == runners[r]
            t == runners'[r]
        IN (ExitStep(s, t) /\ isRunning(s) /\ s.currentCommand # 0)
           => /\ t.channel = s.channel
              /\ t.cmdTimers = s.cmdTimers
              /\ \A k \in 1..Len(s.commandQueue) :
                    /\ t.calls[s.commandQueue[k]].state = "rejected"
                    /\ t.calls[s.commandQueue[k]].err = "NotRunning"]_vars

----------------------------------------------------------------------------
(* C7 *)

\* C7: after stop() on a runner with a command in flight, the exit
\* notification of the killed process rejects that command, whatever the
\* exit code.
C7_StopRejectsInFlight ==
  [][\A r \in RunnerIds :
        LET s == runners[r]
            t == runners'[r]
        IN (ExitStep(s, t) /\ s.pty = "killed" /\ s.currentCommand # 0)
           => t.calls[s.currentCommand].state = "rejected"]_vars

----------------------------------------------------------------------------
(* C8 *)

\* C8: once the connection timer has fired, the promise of start() is
\* settled.
C8_StartSettlesByTimeout ==
  \A r \in RunnerIds :
     Runner(r).connTimer = "fired"
     => Runner(r).startState \in {"resolved", "rejected"}

\* the connection timer itself settled start(), after the process had gone
\* without a start() rejection
C8_Witness ==
  \E r \in RunnerIds :
     /\ Runner(r).connTimer = "fired"
     /\ Runner(r).startState = "rejected"
     /\ Runner(r).startError = <<"timeout">>
     /\ Runner(r).pty = "exited"

----------------------------------------------------------------------------
(* C9 *)

\* C9: when the connection timer fires before readiness was detected and the
\* process is still alive, the runner becomes connected and start() resolves.
C9_TimeoutConnects ==
  [][\A r \in RunnerIds :
        LET s == runners[r]
            t == runners'[r]
        IN (/\ ConnectionTimerStep(s, t)
            /\ s.startState = "pending"
            /\ ~s.isConnected
            /\ s.process # "null"
            /\ s.pty = "alive")
           => t.isConnected /\ t.startState = "resolved"]_vars

----------------------------------------------------------------------------
(* C10 *)

\* C10 (as stated): when the process exits, with any exit code, while
\* start() is still pending, start() rejects with an error carrying the exit
\* code.
C10_ExitRejectsStart ==
  [][\A r \in RunnerIds :
        LET s == runners[r]
            t == runners'[r]
        IN (ExitStep(s, t) /\ s.startState = "pending" /\ ~s.isConnected)
           => /\ t.startState = "rejected"
              /\ t.startError = <<"exit", t.exitCode>>]_vars

\* C10 (amended): when the process exits with a non-zero exit code while
\* start() is still pending, start() rejects with an error carrying the exit
\* code.
C10_NonZeroExitRejectsStart ==
  [][\A r \in RunnerIds :
        LET s == runners[r]
            t == runners'[r]
        IN (/\ ExitStep(s, t)
            /\ s.startState = "pending"
            /\ ~s.isConnected
            /\ t.exitCode # 0)
           => /\ t.startState = "rejected"
              /\ t.startError = <<"exit", t.exitCode>>]_vars

\* start() was rejected with the exit code of a process that exited before
\* the connection timer fired
C10_Witness ==
  \E r \in RunnerIds :
     /\ Runner(r).pty = "exited"
     /\ Runner(r).exitCode = 1
     /\ Runner(r).connTimer = "armed"
     /\ Runner(r).startState = "rejected"
     /\ Runner(r).startError = <<"exit", 1>>

----------------------------------------------------------------------------
(* C11 *)

\* the step from s to t is the readiness test matching the buffer: in
\* onData for the revision with hasShellPrompt, in the checkConnection
\* interval for the other
ReadinessStep(s, t) ==
  \/ /\ s.impl = "prompt"
     /\ \E chunk \in Chunks :
           /\ t.received = s.received \o chunk
           /\ hasShellPrompt(s.outputBuffer \o chunk)
  \/ /\ s.impl = "interval"
     /\ s.checkInterval
     /\ ~t.checkInterval
     /\ hasReadyChar(s.outputBuffer)

----------------------------------------------------------------------------
(* C12 *)

\* C12: an executeCommand call on a runner that is not connected is rejected
\* at once with NotRunning; it is not enqueued, nothing is written to the
\* channel, no timer is armed, and the output buffer and the in-flight
\* command stay as they were.
C12_RefusedWhenNotRunning ==
  [][\A r \in RunnerIds :
        LET s == runners[r]
            t == runners'[r]
        IN (Len(t.calls) = Len(s.calls) + 1 /\ ~isRunning(s))
           => /\ t.calls[Len(t.calls)].state = "rejected"
              /\ t.calls[Len(t.calls)].err = "NotRunning"
              /\ t.commandQueue = s.commandQueue
              /\ t.channel = s.channel
              /\ t.cmdTimers = s.cmdTimers
              /\ t.outputBuffer = s.outputBuffer
              /\ t.currentCommand = s.currentCommand
              /\ t.isConnected = s.isConnected]_vars

\* a call was refused after stop() while an earlier command was still in
\* flight with output in the buffer
C12_Witness ==
  \E r \in RunnerIds :
     /\ Len(Runner(r).calls) = 2
     /\ Runner(r).calls[2].err = "NotRunning"
     /\ Runner(r).calls[1].state = "inflight"
     /\ Runner(r).currentCommand = 1
     /\ Runner(r).outputBuffer = <<"h">>
     /\ Len(Runner(r).channel) = 1
     /\ Runner(r).kills = 1

----------------------------------------------------------------------------
(* C13 *)

\* C13: stop() is idempotent.  In every state stop() leaves the runner
\* disconnected and a stop() right after it changes nothing; once stop() has
\* killed the process, every later stop() changes nothing, so the process is
\* killed at most once.
C13_StopIdempotent ==
  \A r \in RunnerIds :
     LET s == Runner(r)
         t == stop(s)
     IN /\ ~isRunning(t)
        /\ stop(t) = t
        /\ (s.kills > 0 => t = s)
        /\ t.kills <= 1

\* stop() has killed the process of a connected runner, the exit is still to
\* come, and stop() would change nothing now
C13_Witness ==
  \E r \in RunnerIds :
     /\ Runner(r).kills = 1
     /\ Runner(r).pty = "killed"
     /\ Runner(r).startState = "resolved"
     /\ ~isRunning(Runner(r))
     /\ stop(Runner(r)) = Runner(r)

----------------------------------------------------------------------------
(* Reading the registry *)

\* object n is the descriptor the map holds under its id
Registered(n) ==
  /\ n \in DOMAIN descs
  /\ descs[n].id \in DOMAIN processes
  /\ processes[descs[n].id] = n

\* the registered ids whose descriptor has status Running
ActiveIds == {id \in DOMAIN processes : descs[processes[id]].status = "running"}

ValidCommand == <<"s", "h">>

----------------------------------------------------------------------------
(* C14 *)

\* C14: startProcess with an id that is not registered fails with
\* CapacityExceeded exactly when the number of sessions with status Running
\* is at maxProcesses, and registers the session otherwise.
C14_CapacityCountsRunning ==
  \A id \in Ids \ DOMAIN processes : \A impl \in Impls :
     LET o == startProcess(Registry, id, ValidCommand, impl)
     IN /\ o.outcome = "CapacityExceeded"
           <=> Cardinality(ActiveIds) >= MaxProcesses
        /\ o.outcome # "CapacityExceeded" => o.outcome = "registered"

----------------------------------------------------------------------------
(* C15 *)

\* C15: whenever the id is already registered, startProcess fails with
\* DuplicateId.
C15_DuplicateIdRejected ==
  \A id \in DOMAIN processes : \A command \in RegCommands : \A impl \in Impls :
     startProcess(Registry, id, command, impl).outcome = "DuplicateId"

----------------------------------------------------------------------------
(* C16 *)

\* C16: a startProcess call that raises (duplicate id, capacity reached,
\* empty command) leaves the map, every descriptor and every runner as they
\* were, and spawns no process.
C16_FailedStartChangesNothing ==
  \A id \in Ids : \A command \in RegCommands : \A impl \in Impls :
     LET o == startProcess(Registry, id, command, impl)
     IN o.outcome \in StartErrors => o.g = Registry

\* one session is registered and still connecting: starting its id again
\* raises DuplicateId, starting another id with an empty command raises the
\* construction error
C16_Witness ==
  /\ DOMAIN processes = {"a"}
  /\ runners[processes["a"]].pty = "alive"
  /\ descs[processes["a"]].startCall = "awaiting"
  /\ startProcess(Registry, "a", ValidCommand, "interval").outcome = "DuplicateId"
  /\ startProcess(Registry, "b", << >>, "interval").outcome = "ConfigurationError"

----------------------------------------------------------------------------
(* C17 *)

\* C17: the registry never holds more than maxProcesses descriptors, also
\* while startProcess calls are suspended in their await of start().
C17_AtMostMaxProcesses ==
  Cardinality(DOMAIN processes) <= MaxProcesses

\* the registry is full, both startProcess calls are still suspended, and a
\* third startProcess raises CapacityExceeded
C17_Witness ==
  /\ Cardinality(DOMAIN processes) = MaxProcesses
  /\ \A id \in DOMAIN processes : descs[processes[id]].startCall = "awaiting"
  /\ \E id \in Ids \ DOMAIN processes :
        startProcess(Registry, id, ValidCommand, "interval").outcome
           = "CapacityExceeded"

----------------------------------------------------------------------------
(* C18 *)

\* C18: when start() of a session's runner is rejected, the descriptor stays
\* registered under its id, its status is Errored, and the startProcess call
\* returns instead of raising.
C18_FailedStartIsErrored ==
  [][\A n \in DOMAIN runners :
        (runners[n].startState = "pending" /\ runners'[n].startState = "rejected")
        => /\ descs'[n].status = "error"
           /\ descs'[n].startCall = "returned"
           /\ descs'[n].id \in DOMAIN processes'
           /\ processes'[descs'[n].id] = n]_vars

\* the connection timer rejected start(): the session is registered as
\* Errored and its startProcess call has returned
C18_Witness ==
  \E id \in DOMAIN processes :
     /\ runners[processes[id]].startState = "rejected"
     /\ runners[processes[id]].startError = <<"timeout">>
     /\ descs[processes[id]].status = "error"
     /\ descs[processes[id]].startCall = "returned"

----------------------------------------------------------------------------
(* C19 *)

\* C19: stopProcess returns false and changes nothing for an id that is not
\* registered; for a registered id, whatever its status, it stops the
\* runner, leaves the status Stopped and returns true.
C19_StopProcessStops ==
  \A id \in Ids :
     LET o == stopProcess(Registry, id)
     IN IF id \notin DOMAIN processes
        THEN o.outcome = "false" /\ o.g = Registry
        ELSE /\ o.outcome = "true"
             /\ o.g.descs[processes[id]].status = "stopped"
             /\ o.g.runners[processes[id]].process = "null"
             /\ o.g.runners[processes[id]].pty # "alive"

----------------------------------------------------------------------------
(* C20 *)

\* C20: executeProcessCommand and writeToProcess fail with NotFound for an
\* id that is not registered and with NotRunning for a descriptor whose
\* status is not Running, changing nothing; otherwise they hand the call to
\* the runner of that session and touch nothing else.
C20_GuardsThenDelegates ==
  \A id \in Ids : \A command \in Commands : \A input \in RegInputs :
     LET e == executeProcessCommand(Registry, id, command)
         w == writeToProcess(Registry, id, input)
     IN IF id \notin DOMAIN processes
        THEN /\ e.outcome = "NotFound" /\ e.g = Registry
             /\ w.outcome = "NotFound" /\ w.g = Registry
        ELSE LET n == processes[id]
             IN IF descs[n].status # "running"
                THEN /\ e.outcome = "NotRunning" /\ e.g = Registry
                     /\ w.outcome = "NotRunning" /\ w.g = Registry
                ELSE /\ e.outcome = "delegated"
                     /\ e.g = [Registry EXCEPT
                                 !.runners[n] = executeCommand(@, command)]
                     /\ w.outcome \in {"delegated", "delegatedThrew"}
                     /\ w.g = [Registry EXCEPT
                                 !.runners[n] = write(@, input).runner]

\* a command and a raw input were handed to the runner of session "a" and
\* written to its channel; the session has been stopped since, so both
\* operations now fail with NotRunning for "a" and with NotFound for "b"
C20_Witness ==
  /\ DOMAIN processes = {"a"}
  /\ descs[processes["a"]].status = "stopped"
  /\ Len(runners[processes["a"]].calls) = 1
  /\ runners[processes["a"]].calls[1].via # "refused"
  /\ runners[processes["a"]].channel = << <<"l", "s", "\n">>, <<"y">> >>
  /\ executeProcessCommand(Registry, "a", <<"l", "s">>).outcome = "NotRunning"
  /\ writeToProcess(Registry, "b", <<"y">>).outcome = "NotFound"

----------------------------------------------------------------------------
(* C21 *)

\* C21: a sweep pass removes from the map exactly the descriptors whose
\* status is not Running and whose age exceeds the retention window; it
\* keeps every Running descriptor, changes no descriptor and stops no runner.
C21_SweepEvictsStaleOnly ==
  LET o     == sweep(Registry)
      stale == {id \in DOMAIN processes :
                  /\ descs[processes[id]].status # "running"
                  /\ descs[processes[id]].expired}
  IN /\ DOMAIN o.g.processes = DOMAIN processes \ stale
     /\ \A id \in DOMAIN o.g.processes : o.g.processes[id] = processes[id]
     /\ \A id \in ActiveIds : getProcess(o.g, id) = processes[id]
     /\ o.g.descs = descs
     /\ o.g.runners = runners

\* a sweep has evicted a stopped session although an older session, still
\* Running and also past the retention window, stays registered with its
\* process alive
C21_Witness ==
  \E m, n \in DOMAIN descs :
     /\ m < n
     /\ Registered(m)
     /\ descs[m].status = "running" /\ descs[m].expired
     /\ runners[m].pty = "alive"
     /\ descs[n].status = "stopped" /\ descs[n].expired
     /\ descs[n].id \notin DOMAIN processes
     /\ runners[n].kills = 1

----------------------------------------------------------------------------
(* C22 *)

\* C22: with the registry full, startProcess of a further id fails with
\* CapacityExceeded and stopProcess of a registered id returns true; every
\* registered session that has left Running is eventually evicted, so that
\* getProcess of its id no longer returns it.
C22_TerminalSessionsAreEvicted ==
  /\ [](Cardinality(DOMAIN processes) = MaxProcesses
        => /\ \A id \in Ids \ DOMAIN processes :
                 startProcess(Registry, id, ValidCommand, "interval").outcome
                    = "CapacityExceeded"
           /\ \A id \in DOMAIN processes :
                 stopProcess(Registry, id).outcome = "true")
  /\ \A n \in 1..MaxSessions :
        (Registered(n) /\ descs[n].status # "running")
           ~> (n \in DOMAIN descs /\ getProcess(Registry, descs[n].id) # n)

\* the scenario: "a" and "b" were started, "a" was stopped and has been
\* swept after the retention window, "b" is still registered and Running
C22_Witness ==
  /\ Len(descs) = 2
  /\ descs[1].id = "a" /\ descs[2].id = "b"
  /\ descs[1].status = "stopped" /\ descs[1].expired
  /\ getProcess(Registry, "a") = 0
  /\ getProcess(Registry, "b") = 2
  /\ descs[2].status = "running"

----------------------------------------------------------------------------
(* C23 *)

\* C23: shutdown() leaves the map empty, so that getAllProcesses() returns
\* nothing and getProcess nothing for any id, and it has called stop() on the
\* runner of every session whose status was Running; the other runners are
\* left as they were.
C23_ShutdownStopsAndClears ==
  LET o == shutdown(Registry)
  IN /\ getAllProcesses(o.g) = {}
     /\ \A id \in Ids : getProcess(o.g, id) = 0
     /\ \A n \in DOMAIN runners :
           IF Registered(n) /\ descs[n].status = "running"
           THEN /\ o.g.runners[n] = stop(runners[n])
                /\ o.g.runners[n].pty # "alive"
                /\ ~isRunning(o.g.runners[n])
           ELSE o.g.runners[n] = runners[n]

\* shutdown() has run on two Running sessions: the map is empty and both
\* processes were killed, their descriptors never having been stopped
C23_Witness ==
  /\ processes = << >>
  /\ Len(descs) = 2
  /\ \A n \in {1, 2} :
        /\ descs[n].status = "running"
        /\ runners[n].kills = 1
        /\ runners[n].pty = "killed"

----------------------------------------------------------------------------
(* C24 *)

\* C24: when start() of the ad hoc runner resolves, runCommand stops the
\* runner and resolves with a string; it does not reject.
C24_RunCommandResolves ==
  [][\A r \in RunnerIds :
        LET s == runners[r]
            t == runners'[r]
        IN (/\ s.single = "pending"
            /\ s.startState = "pending"
            /\ t.startState = "resolved")
           => /\ t.single = "resolved"
              /\ typeOf(startValue(t)) = "string"
              /\ ~isRunning(t)
              /\ t.kills = 1]_vars

----------------------------------------------------------------------------
(* C25 *)

\* C25: at the moment runCommand rejects, the process of the ad hoc runner is
\* not alive: it has exited or was killed.
C25_FailedRunLeavesNoProcess ==
  [][\A r \in RunnerIds :
        LET s == runners[r]
            t == runners'[r]
        IN (s.single = "pending" /\ t.single = "rejected")
           => t.pty # "alive"]_vars

----------------------------------------------------------------------------
(* C26 *)

\* what the operation behind outcome o did to session n
Untouched(o, n) ==
  /\ o.g.runners[n] = runners[n]
  /\ o.g.descs[n] = descs[n]

\* C26: a step on one session (a command, a command timeout, output, an
\* exit, a stop) changes no other session, neither its descriptor nor
\* anything of its runner; and every call on one id, failing or not, leaves
\* the sessions of the other ids as they are.
C26_SessionsAreIsolated ==
  [][/\ \A n, m \in DOMAIN runners :
          (n # m /\ (runners'[n] # runners[n] \/ descs'[n] # descs[n]))
          => (runners'[m] = runners[m] /\ descs'[m] = descs[m])
     /\ \A id \in Ids : \A m \in DOMAIN runners :
          (id \notin DOMAIN processes \/ processes[id] # m)
          => /\ Untouched(stopProcess(Registry, id), m)
             /\ \A command \in Commands :
                   Untouched(executeProcessCommand(Registry, id, command), m)
             /\ \A input \in RegInputs :
                   Untouched(writeToProcess(Registry, id, input), m)
             /\ \A command \in RegCommands :
                   Untouched(startProcess(Registry, id, command, "interval"), m)
    ]_vars

\* the process of the first session died with its command in flight and the
\* session is Errored, while the second session is still connected with its
\* own command in flight and its output in the buffer
C26_Witness ==
  /\ Len(descs) = 2
  /\ descs[1].status = "error"
  /\ runners[1].pty = "exited"
  /\ Len(runners[1].calls) = 1
  /\ runners[1].calls[1].state = "rejected"
  /\ descs[2].status = "running"
  /\ isRunning(runners[2])
  /\ Len(runners[2].calls) = 1
  /\ runners[2].currentCommand = 1
  /\ runners[2].calls[1].state = "inflight"
  /\ runners[2].pty = "alive"
  /\ runners[2].outputBuffer = <<"$", " ">>

----------------------------------------------------------------------------
(* C27 *)

\* C27: when the result of a command is delivered (the call is resolved by a
\* prompt match or by its timeout), the output buffer is empty right after:
\* getOutput() returns the empty string.
C27_DeliveryClearsBuffer ==
  [][\A r \in RunnerIds :
        LET s == runners[r]
            t == runners'[r]
        IN \A c \in CallIds(s) :
              (s.calls[c].state = "inflight" /\ t.calls[c].state = "resolved")
              => getOutput(t) = << >>]_vars

----------------------------------------------------------------------------
(* C28 *)

\* C28: the shell prints its prompt, start() resolves, executeCommand("echo
\* hi") is dispatched and the shell answers with the echoed line, "hi" and
\* the next prompt, in one chunk or several; when the prompt test completes
\* the command, the result that executeCommand returns after scrubbing is
\* "hi".
C28_EchoHiDelivered ==
  \A r \in RunnerIds :
     LET s == Runner(r)
     IN (/\ Len(s.calls) = 1
         /\ s.calls[1].command = EchoCommand
         /\ s.calls[1].state = "resolved"
         /\ s.calls[1].via = "prompt")
        => scrub(s.impl, EchoCommand, s.lastValue) = <<"h", "i">>

----------------------------------------------------------------------------
(* C29 *)

\* C29: the calls dispatched so far are the first accepted calls, in the
\* order of their submission, each dispatched once; the channel holds their
\* texts, each followed by a newline, in that order.
C29_DispatchInQueueOrder ==
  \A r \in RunnerIds :
     LET s == Runner(r)
     IN /\ Len(s.dispatched) <= Cardinality(Accepted(s))
        /\ \A i \in 1..Len(s.dispatched) : s.dispatched[i] = NthAccepted(s, i)
        /\ Len(s.channel) = Len(s.dispatched)
        /\ \A i \in 1..Len(s.dispatched) :
              s.channel[i] = s.calls[s.dispatched[i]].command \o <<"\n">>

\* three calls were accepted while the first was in flight; the first two
\* have been dispatched in turn and the third still waits
C29_Witness ==
  \E r \in RunnerIds :
     /\ Accepted(Runner(r)) = {1, 2, 3}
     /\ Runner(r).dispatched = <<1, 2>>
     /\ Runner(r).commandQueue = <<3>>
     /\ Runner(r).channel = << <<"l", "s", "\n">>, <<"l", "s", "\n">> >>
     /\ Runner(r).pty = "alive"

----------------------------------------------------------------------------
(* C30 *)

\* C30: a command timer that was armed for an earlier command, one that has
\* already completed, does not complete the command in flight when it fires.
C30_StaleTimerIsHarmless ==
  [][\A r \in RunnerIds :
        LET s == runners[r]
            t == runners'[r]
        IN (/\ CommandTimerStep(s, t)
            /\ s.currentCommand # 0
            /\ Head(s.cmdTimers) # s.currentCommand)
           => /\ t.currentCommand = s.currentCommand
              /\ t.calls[s.currentCommand].state = "inflight"]_vars

----------------------------------------------------------------------------
(* C31 *)

\* C31: once stopProcess has marked a descriptor Stopped, its status stays
\* Stopped, whatever follows: the exit notification of the killed process,
\* with any exit code, or the rejection of a start() that was still pending.
C31_StoppedStaysStopped ==
  [][\A n \in DOMAIN descs :
        (descs[n].status = "stopped" /\ runners[n].kills > 0)
        => descs'[n].status = "stopped"]_vars

----------------------------------------------------------------------------
(* C32 *)

\* C32: whenever a registered descriptor has status Stopped or Errored, the
\* process of its runner is not alive: it has exited or was killed.
C32_TerminalMeansNoProcess ==
  \A n \in DOMAIN descs :
     (Registered(n) /\ descs[n].status \in {"stopped", "error"})
     => runners[n].pty # "alive"

----------------------------------------------------------------------------
(* C33 *)

\* C33: at the moment start() resolves, the runner is connected to a live
\* process: isRunning() is true, the process has not exited and stop() has
\* not been called.
C33_ResolvedStartIsRunning ==
  [][\A r \in RunnerIds :
        LET s == runners[r]
            t == runners'[r]
        IN (s.startState = "pending" /\ t.startState = "resolved")
           => /\ isRunning(t)
              /\ t.pty = "alive"
              /\ t.kills = 0]_vars

----------------------------------------------------------------------------
(* C34 *)

\* C34: every accepted call is in exactly one place: once in the queue, or
\* in flight as currentCommand, or settled; the queue and currentCommand
\* hold accepted calls only; and the sink of a call is invoked once when it
\* settles and not at all before.
C34_CallInExactlyOnePlace ==
  \A r \in RunnerIds :
     LET s == Runner(r)
     IN /\ \A c \in Accepted(s) :
              LET queued   == Occurrences(s.commandQueue, c)
                  inFlight == s.currentCommand = c
                  settled  == s.calls[c].state \in Settled
              IN /\ \/ queued = 1 /\ ~inFlight /\ ~settled
                    \/ queued = 0 /\ inFlight /\ ~settled
                    \/ queued = 0 /\ ~inFlight /\ settled
                 /\ s.calls[c].sinks = (IF settled THEN 1 ELSE 0)
                 /\ Occurrences(s.settled, c) = (IF settled THEN 1 ELSE 0)
        /\ \A k \in 1..Len(s.commandQueue) : s.commandQueue[k] \in Accepted(s)
        /\ s.currentCommand # 0 => s.currentCommand \in Accepted(s)

\* the process exited with the first command in flight: that call was
\* rejected once, the second was taken from the queue and is in flight, the
\* third still waits in the queue
C34_Witness ==
  \E r \in RunnerIds :
     /\ Runner(r).pty = "exited"
     /\ Accepted(Runner(r)) = {1, 2, 3}
     /\ Runner(r).calls[1].state = "rejected"
     /\ Runner(r).calls[1].via = "exit"
     /\ Runner(r).calls[1].sinks = 1
     /\ Runner(r).currentCommand = 2
     /\ Runner(r).commandQueue = <<3>>

----------------------------------------------------------------------------
(* C35 *)

\* C35: once the process has exited, isRunning() is false for good, and
\* every executeCommand and every write is refused, whatever timer fires
\* afterwards; a chunk delivered late would not reconnect the runner either.
C35_ExitedStaysDisconnected ==
  \A r \in RunnerIds :
     LET s == Runner(r)
     IN s.pty = "exited"
        => /\ ~isRunning(s)
           /\ \A command \in Commands :
                 LET t == executeCommand(s, command)
                 IN /\ t.calls[Len(t.calls)].via = "refused"
                    /\ t.calls[Len(t.calls)].err = "NotRunning"
                    /\ t.channel = s.channel
           /\ \A input \in RegInputs :
                 /\ write(s, input).threw
                 /\ write(s, input).runner = s
           /\ \A chunk \in Chunks : ~isRunning(onData(s, chunk))

\* the process exited before the readiness test ran; the checkConnection
\* interval has fired since and set the connected flag, and the
\* executeCommand call made after that was still refused
C35_Witness ==
  \E r \in RunnerIds :
     /\ Runner(r).pty = "exited"
     /\ Runner(r).isConnected
     /\ ~Runner(r).checkInterval
     /\ Len(Runner(r).calls) = 1
     /\ Runner(r).calls[1].via = "refused"
     /\ Runner(r).settled = <<1>>

----------------------------------------------------------------------------
(* C36 *)

\* C36: in the step in which the process of a session exits, the status of
\* its descriptor becomes Stopped for exit code 0 and Errored for any other
\* exit code; it is not Running afterwards.
C36_ExitSetsStatus ==
  [][\A n \in DOMAIN runners :
        ExitStep(runners[n], runners'[n])
        => /\ descs'[n].status # "running"
           /\ descs'[n].status = IF runners'[n].exitCode = 0
                                 THEN "stopped" ELSE "error"]_vars

\* two sessions left Running by the exit of their process, which nobody had
\* stopped: one with exit code 0 and status Stopped, one with exit code 1
\* and status Errored
C36_Witness ==
  \E m, n \in DOMAIN descs :
     /\ runners[m].pty = "exited" /\ runners[n].pty = "exited"
     /\ runners[m].kills = 0 /\ runners[n].kills = 0
     /\ runners[m].exitCode = 0 /\ descs[m].status = "stopped"
     /\ runners[n].exitCode = 1 /\ descs[n].status = "error"

----------------------------------------------------------------------------
(* C37 *)

\* C37: the status of a descriptor never goes from Stopped or Errored back
\* to Running.
C37_TerminalStatusIsFinal ==
  [][\A n \in DOMAIN descs :
        descs[n].status # "running" => descs'[n].status # "running"]_vars

\* a session was stopped while its start() was pending and start() resolved
\* afterwards: the startProcess call has returned and the status is still
\* Stopped
C37_Witness ==
  \E n \in DOMAIN descs :
     /\ descs[n].status = "stopped"
     /\ descs[n].startCall = "returned"
     /\ runners[n].kills = 1
     /\ runners[n].startState = "resolved"
     /\ runners[n].pty = "killed"

====
